---- MODULE Spec2Model ----
(***************************************************************************)
(* Model of the two reminder scripts of the repository, bot.py (run_daily, *)
(* with a --test mode and a calendar route) and daily_digest.py            *)
(* (run_daily_reminders).  Both load sent.json, fetch tomorrow's events,   *)
(* send one Telegram message per event and destination, and write         *)
(* sent.json back.                                                         *)
(*                                                                         *)
(* Strings are sequences of one-character strings, so that the key         *)
(* f"{ev_id}:{start_key}:T-1" is a real concatenation and sorted() a real  *)
(* ordering by code point.  A timestamp is modelled by its time of day     *)
(* "HH:MM" (the date and offset of the ISO text are elided), a date by two *)
(* digits.                                                                 *)
(***************************************************************************)
EXTENDS Integers, Sequences, FiniteSets, TLC

\* ------------------------------------------------------------------ bounds
MaxEvents == 2
MaxRuns == 2
MaxDests == 2

\* ----------------------------------------------------------------- strings
Digits == {"0", "1", "2", "3", "4", "5", "6", "7", "8", "9"}

\* Code point of a character (the order sorted() uses on str).
CharCode(c) ==
  CASE c = "-" -> 45
    [] c = "0" -> 48 [] c = "1" -> 49 [] c = "2" -> 50 [] c = "3" -> 51
    [] c = "4" -> 52 [] c = "5" -> 53 [] c = "6" -> 54 [] c = "7" -> 55
    [] c = "8" -> 56 [] c = "9" -> 57
    [] c = ":" -> 58
    [] c = "T" -> 84
    [] c = "a" -> 97 [] c = "b" -> 98 [] c = "c" -> 99
    [] c = "o" -> 111 [] c = "x" -> 120
    [] OTHER -> 127

RECURSIVE StrLess(_, _)
\* Python's s < t on two str values.
StrLess(s, t) ==
  IF t = <<>> THEN FALSE
  ELSE IF s = <<>> THEN TRUE
  ELSE IF CharCode(Head(s)) # CharCode(Head(t))
       THEN CharCode(Head(s)) < CharCode(Head(t))
       ELSE StrLess(Tail(s), Tail(t))

Range(q) == {q[k] : k \in 1..Len(q)}

RECURSIVE SortedList(_)
\* sorted(list(sent)): the elements of the set, ascending, each once.
SortedList(S) ==
  IF S = {} THEN <<>>
  ELSE LET m == CHOOSE x \in S : \A y \in S \ {x} : StrLess(x, y)
       IN  <<m>> \o SortedList(S \ {m})

\* ------------------------------------------------------------------ events
\* A field that is absent (or the empty string) is <<>>: the code tests the
\* fields by truthiness, which does not tell the two apart.
Event(id, sdt, sd, edt) ==
  [id |-> id, startDateTime |-> sdt, startDate |-> sd, endDateTime |-> edt]

EvTimed == Event(<<"a">>, <<"1", "4", ":", "0", "0">>, <<>>, <<"1", "5", ":", "0", "0">>)
EvAllDay == Event(<<"b">>, <<>>, <<"0", "7">>, <<>>)
EvBad == Event(<<"c">>, <<"x">>, <<>>, <<>>)

EventPool == {EvTimed, EvAllDay, EvBad}

\* Events for the identity key: EvTimed fetched again with its end removed,
\* and an event whose identifier holds a ':'.
EvTimedNoEnd == Event(<<"a">>, <<"1", "4", ":", "0", "0">>, <<>>, <<>>)
EvColonId == Event(<<"a", ":", "1", "4">>, <<>>, <<"0", "0">>, <<>>)

KeyPool == {EvTimed, EvTimedNoEnd, EvColonId, EvAllDay}

RECURSIVE SeqsUpTo(_, _)
SeqsUpTo(S, n) ==
  IF n = 0 THEN {<<>>}
  ELSE LET shorter == SeqsUpTo(S, n - 1)
       IN  shorter \cup {Append(q, x) : q \in {r \in shorter : Len(r) = n - 1}, x \in S}

EventLists == SeqsUpTo(EventPool, MaxEvents)

\* datetime.fromisoformat accepts the text.
ValidDateTime(s) ==
  /\ Len(s) = 5
  /\ s[3] = ":"
  /\ \A k \in {1, 2, 4, 5} : s[k] \in Digits
  /\ (CharCode(s[1]) - 48) * 10 + (CharCode(s[2]) - 48) < 24
  /\ (CharCode(s[4]) - 48) * 10 + (CharCode(s[5]) - 48) < 60

ValidDate(s) == Len(s) = 2 /\ \A k \in 1..2 : s[k] \in Digits

\* --------------------------------------------------------------- time text
DigitSeq == <<"0", "1", "2", "3", "4", "5", "6", "7", "8", "9">>

\* The number written by the two digits of s at k and k + 1.
Num2(s, k) == (CharCode(s[k]) - 48) * 10 + (CharCode(s[k + 1]) - 48)

\* A number below 100 as two digits, zero-padded.
TwoDigits(n) == <<DigitSeq[(n \div 10) + 1], DigitSeq[(n % 10) + 1]>>

\* dt.strftime("%I:%M %p") for hour h (0..23) and minute m.
strftime_IMp(h, m) ==
  TwoDigits(IF h % 12 = 0 THEN 12 ELSE h % 12) \o <<":">> \o TwoDigits(m)
    \o <<" ">> \o (IF h < 12 THEN <<"A", "M">> ELSE <<"P", "M">>)

RECURSIVE lstrip0(_)
\* s.lstrip("0")
lstrip0(s) == IF s # <<>> /\ Head(s) = "0" THEN lstrip0(Tail(s)) ELSE s

\* nice_time (bot.py 72-73).
nice_time(h, m) == lstrip0(strftime_IMp(h, m))

Dash == <<" ", "-", " ">>
AllDayText == <<"A", "l", "l", " ", "d", "a", "y">>

\* time_str of bot.py 84-96: a missing end is start + 1 hour.
TimeStrBot(ev) ==
  IF ev.startDateTime # <<>>
  THEN LET sh == Num2(ev.startDateTime, 1)
           sm == Num2(ev.startDateTime, 4)
           eh == IF ev.endDateTime # <<>> THEN Num2(ev.endDateTime, 1) ELSE (sh + 1) % 24
           em == IF ev.endDateTime # <<>> THEN Num2(ev.endDateTime, 4) ELSE sm
       IN  nice_time(sh, sm) \o Dash \o nice_time(eh, em)
  ELSE AllDayText

\* time_str of daily_digest.py 97-110: a missing end gives the start alone.
TimeStrDigest(ev) ==
  IF ev.startDateTime # <<>>
  THEN LET start == strftime_IMp(Num2(ev.startDateTime, 1), Num2(ev.startDateTime, 4))
       IN  IF ev.endDateTime # <<>>
           THEN start \o Dash
                  \o strftime_IMp(Num2(ev.endDateTime, 1), Num2(ev.endDateTime, 4))
           ELSE start
  ELSE AllDayText

TimeStr(v, ev) == IF v = "bot" THEN TimeStrBot(ev) ELSE TimeStrDigest(ev)

\* format_event_message raises (ValueError, KeyError or TypeError).
FormatRaises(ev) ==
  IF ev.startDateTime # <<>>
  THEN \/ ~ValidDateTime(ev.startDateTime)
       \/ ev.endDateTime # <<>> /\ ~ValidDateTime(ev.endDateTime)
  ELSE ~ValidDate(ev.startDate)

\* ev.get("start").get("dateTime") or .get("date") or ""
StartKey(ev) == IF ev.startDateTime # <<>> THEN ev.startDateTime ELSE ev.startDate

Tag == <<"T", "-", "1">>
CalId == <<"c">>

KeyDigestWithEnd(ev) ==
  ev.id \o <<":">> \o StartKey(ev) \o <<":">> \o ev.endDateTime \o <<":">> \o Tag

KeyBot(ev) == CalId \o <<":">> \o ev.id \o <<":">> \o StartKey(ev) \o <<":">> \o Tag
KeyDigest(ev) == ev.id \o <<":">> \o StartKey(ev) \o <<":">> \o Tag
Key(v, ev) == IF v = "bot" THEN KeyBot(ev) ELSE KeyDigest(ev)

\* ------------------------------------------------------------ sent.json
\* The content of sent.json: what json.load would see.  "missing": no file;
\* "corrupt": not JSON (an empty or cut file included); "number", "string",
\* "object", "array": a JSON value of that shape.  items: the array's
\* elements, the object's keys, or the one string.
FileOf(kind, items) == [kind |-> kind, items |-> items]
Missing == FileOf("missing", <<>>)
Truncated == FileOf("corrupt", <<>>)
ArrayFile(items) == FileOf("array", items)

\* set(json.load(f)), or set() on any exception.
load_sent(f) ==
  CASE f.kind = "array" -> Range(f.items)
    [] f.kind = "object" -> Range(f.items)
    [] f.kind = "string" -> {<<f.items[1][k]>> : k \in 1..Len(f.items[1])}
    [] OTHER -> {}

\* What json.dump(sorted(list(sent)), f) leaves in the file once closed.
save_sent(sent) == ArrayFile(SortedList(sent))

OldKey == <<"o">>

InitFiles(v) ==
  { Missing,
    Truncated,
    FileOf("number", <<>>),
    FileOf("string", << <<"a", "b">> >>),
    FileOf("object", <<Key(v, EvTimed)>>),
    ArrayFile(<<>>),
    ArrayFile(<<OldKey>>),
    ArrayFile(<<Key(v, EvTimed)>>),
    ArrayFile(<<Key(v, EvAllDay), Key(v, EvTimed)>>) }

\* ------------------------------------------------------------------- state
Procs == {"p1", "p2"}
Outcomes == {"ok", "notok", "exc"}

VARIABLES
  variant,        \* "bot" (bot.py) or "digest" (daily_digest.py)
  telegramToken,  \* TELEGRAM_TOKEN is set
  googleJson,     \* GOOGLE_TOKEN_JSON: "absent", "invalid" (not JSON), "valid"
  chatIds,        \* route["chat_ids"] (bot) or GROUP_CHAT_IDS (digest)
  calFound,       \* the routed calendar is in the calendarList (bot)
  events,         \* what the events query returns: the same in every run
  tokenFile,      \* token.json exists
  file,           \* the content of sent.json
  run,            \* per invocation: its position and local variables
  runs            \* invocations started so far

vars == <<variant, telegramToken, googleJson, chatIds, calFound, events,
          tokenFile, file, run, runs>>

config == <<variant, telegramToken, googleJson, chatIds, calFound, events>>

\* pc: the position; isTest: --test; sent, evs (the fetched events), i (loop
\* position), d (destination index): the locals of the run; calls: the
\* requests.post calls of this run, in order; io: the kinds of I/O done so
\* far; fileAtStart: sent.json when the run started; err: the exception that
\* ended it; reported: the count printed (daily_digest.py 174), -1 if none;
\* no: the number of the invocation; overlap: another invocation was running
\* at some time of this one; prevTest, prevEnd, prevCalls: the mode, the end
\* and the number of calls of the invocation before this one.
IdleRun ==
  [pc |-> "idle", isTest |-> FALSE, sent |-> {}, evs |-> <<>>, i |-> 0, d |-> 0,
   calls |-> <<>>, io |-> {}, fileAtStart |-> Missing, err |-> "none",
   reported |-> -1, no |-> 0, overlap |-> FALSE,
   prevTest |-> FALSE, prevEnd |-> "idle", prevCalls |-> 0]

Ended == {"done", "raised", "crashed"}

Running(r) == r.pc \notin Ended \cup {"idle"}

Init ==
  /\ variant \in {"bot", "digest"}
  /\ telegramToken \in BOOLEAN
  /\ googleJson \in {"absent", "invalid", "valid"}
  /\ chatIds \in {[k \in 1..n |-> k] : n \in (IF variant = "bot" THEN 1 ELSE 0)..MaxDests}
  /\ calFound \in (IF variant = "bot" THEN BOOLEAN ELSE {TRUE})
  /\ events \in EventLists
  /\ tokenFile = FALSE  \* a fresh checkout: token.json is never committed
  /\ file \in InitFiles(variant)
  /\ run = [p \in Procs |-> IdleRun]
  /\ runs = 0

\* ----------------------------------------------------------------- helpers
Set(p, r) == run' = [run EXCEPT ![p] = r]

\* An uncaught exception: the interpreter exits.
Raise(p, e) == Set(p, [run[p] EXCEPT !.pc = "raised", !.err = e])

AfterLoopAlwaysSaves(r) == "save_open"

\* The statement after the event loop: bot.py 188-189, daily_digest.py 173.
AfterLoop(r) ==
  IF variant = "bot" /\ r.isTest THEN "done" ELSE "save_open"

Finish(p, r) == Set(p, [r EXCEPT !.pc = AfterLoop(r)])

\* ----------------------------------------------------------------- actions
\* The script is invoked: python bot.py [--test], or python daily_digest.py.
Invoke(p, test, limit) ==
  /\ run[p].pc \in Ended \cup {"idle"}
  /\ runs < limit
  /\ variant = "digest" => ~test
  /\ runs' = runs + 1
  /\ LET others == {q \in Procs \ {p} : Running(run[q])}
         new == [IdleRun EXCEPT !.pc = IF variant = "bot" THEN "import" ELSE "check",
                                !.isTest = test,
                                !.fileAtStart = file,
                                !.no = runs + 1,
                                !.overlap = others # {},
                                !.prevTest = run[p].isTest,
                                !.prevEnd = run[p].pc,
                                !.prevCalls = Len(run[p].calls)]
     IN  run' = [q \in Procs |->
                   IF q = p THEN new
                   ELSE IF q \in others THEN [run[q] EXCEPT !.overlap = TRUE]
                   ELSE run[q]]
  /\ UNCHANGED <<config, tokenFile, file>>

StartRun(p, test) == Invoke(p, test, MaxRuns)

\* bot.py 17-20: token.json written at import time.
Bootstrap(p) ==
  /\ run[p].pc = "import"
  /\ IF googleJson # "absent" /\ ~tokenFile
     THEN IF googleJson = "invalid"
          THEN /\ Raise(p, "json")
               /\ UNCHANGED tokenFile
          ELSE /\ tokenFile' = TRUE
               /\ Set(p, [run[p] EXCEPT !.pc = "check", !.io = @ \cup {"tokenWrite"}])
     ELSE /\ Set(p, [run[p] EXCEPT !.pc = "check"])
          /\ UNCHANGED tokenFile
  /\ UNCHANGED <<config, file, runs>>

\* bot.py 143-146, daily_digest.py 144-147.
ConfigMissing ==
  IF variant = "bot" THEN ~telegramToken \/ ~tokenFile
  ELSE ~telegramToken \/ chatIds = <<>>

CheckConfig(p) ==
  /\ run[p].pc = "check"
  /\ IF ConfigMissing
     THEN Raise(p, "config")
     ELSE /\ Set(p, [run[p] EXCEPT !.pc = "service"])
  /\ UNCHANGED <<config, tokenFile, file, runs>>

\* bot.py 67-69; daily_digest.py 72-75 with ensure_token_file (25-45).
GetService(p) ==
  /\ run[p].pc = "service"
  /\ IF variant = "digest" /\ ~tokenFile
     THEN IF googleJson = "absent"
          THEN /\ Raise(p, "config")
               /\ UNCHANGED tokenFile
          ELSE IF googleJson = "invalid"
          THEN /\ Raise(p, "json")
               /\ UNCHANGED tokenFile
          ELSE /\ tokenFile' = TRUE
               /\ Set(p, [run[p] EXCEPT !.pc = "load",
                                        !.io = @ \cup {"tokenWrite", "tokenRead"}])
     ELSE /\ Set(p, [run[p] EXCEPT !.pc = "load", !.io = @ \cup {"tokenRead"}])
          /\ UNCHANGED tokenFile
  /\ UNCHANGED <<config, file, runs>>

\* sent = load_sent(): bot.py 149, daily_digest.py 150.
LoadSent(p) ==
  /\ run[p].pc = "load"
  /\ Set(p, [run[p] EXCEPT !.pc = IF variant = "bot" THEN "calendars" ELSE "events",
                           !.sent = load_sent(file),
                           !.io = @ \cup {"sentRead"}])
  /\ UNCHANGED <<config, tokenFile, file, runs>>

\* bot.py 151-166: the calendarList call and the lookup of the routed calendar.
ListCalendars(p) ==
  /\ run[p].pc = "calendars"
  /\ LET r == [run[p] EXCEPT !.io = @ \cup {"calendar"}]
     IN  IF calFound
         THEN Set(p, [r EXCEPT !.pc = "events"])
         ELSE Finish(p, r)
  /\ UNCHANGED <<config, tokenFile, file, runs>>

OnEmptyFallsThrough(v, r) == AfterLoop(r)

\* No events: daily_digest.py returns (154-156), bot.py goes on to the next
\* route (169-171), of which there is none, and so to the end of run_daily.
OnEmpty(v, r) == IF v = "digest" THEN "done" ELSE AfterLoop(r)

\* bot.py 168-171, daily_digest.py 152-156.
ListEvents(p) ==
  /\ run[p].pc = "events"
  /\ LET r == [run[p] EXCEPT !.io = @ \cup {"calendar"}]
     IN  IF events = <<>>
         THEN Set(p, [r EXCEPT !.pc = OnEmpty(variant, r)])
         ELSE Set(p, [r EXCEPT !.pc = "event", !.evs = events, !.i = 1])
  /\ UNCHANGED <<config, tokenFile, file, runs>>

VisitReversed(evs, k) == Len(evs) + 1 - k

\* for ev in events (bot.py 173, daily_digest.py 158): the index in the list
\* of the event that the k-th iteration takes.
Visit(evs, k) == k

\* if not is_test and key in sent: continue (bot.py 179; daily_digest.py 165).
Skips(r, key) ==
  IF variant = "bot" THEN ~r.isTest /\ key \in r.sent ELSE key \in r.sent

\* The head of a loop iteration, up to the first delivery call:
\* bot.py 173-182, daily_digest.py 158-168.
NextEvent(p) ==
  /\ run[p].pc = "event"
  /\ LET r == run[p]
         ev == r.evs[Visit(r.evs, r.i)]
     IN  IF r.i > Len(r.evs)
         THEN Finish(p, r)
         ELSE IF Skips(r, Key(variant, ev))
         THEN Set(p, [r EXCEPT !.i = @ + 1])
         ELSE IF FormatRaises(ev)
         THEN Raise(p, "parse")
         ELSE Set(p, [r EXCEPT !.pc = "send", !.d = 1])
  /\ UNCHANGED <<config, tokenFile, file, runs>>

\* The exception leaves the run: tg_send raises on a non-ok response (bot.py
\* 58-59), send_telegram prints it (daily_digest.py 68-69); an exception of
\* requests.post or r.json() (timeout, connection error) is caught by neither.
Aborts(v, o) == IF v = "bot" THEN o # "ok" ELSE o = "exc"

RecordedNothing(v, r, key) == r.sent

RecordedReplaces(v, r, key) == {key}

\* sent after the deliveries of one event: bot.py 185-186, daily_digest.py 171.
Recorded(v, r, key) ==
  IF v = "bot" /\ r.isTest THEN r.sent ELSE r.sent \cup {key}

\* One requests.post of tg_send_many (bot.py 62-64 with 50-59) or of
\* send_telegram (daily_digest.py 64-69), with outcome o; after the last
\* destination, the rest of the loop body.
Deliver(p, o) ==
  /\ run[p].pc = "send"
  /\ LET r == [run[p] EXCEPT
                !.io = @ \cup {"delivery"},
                !.calls = Append(@, [ev |-> Visit(run[p].evs, run[p].i),
                                     dest |-> chatIds[run[p].d], res |-> o])]
         ev == r.evs[Visit(r.evs, r.i)]
     IN  IF Aborts(variant, o)
         THEN Set(p, [r EXCEPT !.pc = "raised", !.err = "transport"])
         ELSE IF r.d < Len(chatIds)
         THEN Set(p, [r EXCEPT !.d = @ + 1])
         ELSE Set(p, [r EXCEPT !.pc = "event",
                               !.sent = Recorded(variant, r, Key(variant, ev)),
                               !.i = @ + 1,
                               !.d = 0])
  /\ UNCHANGED <<config, tokenFile, file, runs>>

\* open(SENT_FILE, "w"): the file is created or cut to length zero
\* (bot.py 46, daily_digest.py 57).
SaveOpen(p) ==
  /\ run[p].pc = "save_open"
  /\ file' = Truncated
  /\ Set(p, [run[p] EXCEPT !.pc = "save_dump", !.io = @ \cup {"sentWrite"}])
  /\ UNCHANGED <<config, tokenFile, runs>>

\* json.dump(sorted(list(sent)), f) and the close of the file (bot.py 47,
\* daily_digest.py 58): the text is below the size of the write buffer, so it
\* reaches the file at once.  Then the run ends (daily_digest.py 174 prints
\* the count).
SaveDump(p) ==
  /\ run[p].pc = "save_dump"
  /\ file' = save_sent(run[p].sent)
  /\ Set(p, [run[p] EXCEPT !.pc = "done",
                           !.reported = IF variant = "digest" THEN Len(run[p].evs) ELSE -1])
  /\ UNCHANGED <<config, tokenFile, runs>>

\* The process is killed (power loss, runner timeout, SIGKILL) at any point.
Crash(p) ==
  /\ Running(run[p])
  /\ Set(p, [run[p] EXCEPT !.pc = "crashed"])
  /\ UNCHANGED <<config, tokenFile, file, runs>>

\* ---------------------------------------------------------- specification
\* Non-overlapping invocations: one process slot, used again run after run.
Next ==
  \/ \E test \in BOOLEAN : StartRun("p1", test)
  \/ Bootstrap("p1")
  \/ CheckConfig("p1")
  \/ GetService("p1")
  \/ LoadSent("p1")
  \/ ListCalendars("p1")
  \/ ListEvents("p1")
  \/ NextEvent("p1")
  \/ \E o \in Outcomes : Deliver("p1", o)
  \/ SaveOpen("p1")
  \/ SaveDump("p1")
  \/ Crash("p1")

Spec == Init /\ [][Next]_vars

\* The same program with a complete configuration, on event lists drawn from
\* KeyPool.
InitKeys ==
  /\ variant \in {"bot", "digest"}
  /\ telegramToken = TRUE
  /\ googleJson = "valid"
  /\ chatIds = <<1>>
  /\ calFound = TRUE
  /\ events \in SeqsUpTo(KeyPool, MaxEvents)
  /\ tokenFile = FALSE
  /\ file \in {Missing, ArrayFile(<<OldKey>>)}
  /\ run = [p \in Procs |-> IdleRun]
  /\ runs = 0

SpecKeys == InitKeys /\ [][Next]_vars

\* The same program with a complete configuration on every route, on lists of
\* well-formed events, with sent.json missing or holding the key of one.
InitRoute ==
  /\ variant \in {"bot", "digest"}
  /\ telegramToken = TRUE
  /\ googleJson = "valid"
  /\ chatIds \in {[k \in 1..n |-> k] : n \in 1..MaxDests}
  /\ calFound = TRUE
  /\ events \in SeqsUpTo({EvTimed, EvAllDay}, MaxEvents)
  /\ tokenFile = FALSE
  /\ file \in {Missing, ArrayFile(<<Key(variant, EvTimed)>>)}
  /\ run = [p \in Procs |-> IdleRun]
  /\ runs = 0

SpecRoute == InitRoute /\ [][Next]_vars

\* Tomorrow's window as the fetches of the overlapping runs may find it.
CalendarStates == {<<EvTimed>>, <<EvTimed, EvAllDay>>}

\* Someone edits the calendar between two fetches: an event is added to
\* tomorrow's window, or cancelled.
CalendarChange ==
  /\ events' \in CalendarStates \ {events}
  /\ UNCHANGED <<variant, telegramToken, googleJson, chatIds, calFound,
                 tokenFile, file, run, runs>>

\* Invocations enough for two that overlap and one that follows them.
OverlapRuns == MaxRuns + 1

\* Overlapping scheduled invocations: two processes on the same sent.json,
\* each at its own position, with a calendar that may change between their
\* fetches.
NextOverlap ==
  \/ \E p \in Procs :
       \/ Invoke(p, FALSE, OverlapRuns)
       \/ Bootstrap(p)
       \/ CheckConfig(p)
       \/ GetService(p)
       \/ LoadSent(p)
       \/ ListCalendars(p)
       \/ ListEvents(p)
       \/ NextEvent(p)
       \/ \E o \in Outcomes : Deliver(p, o)
       \/ SaveOpen(p)
       \/ SaveDump(p)
       \/ Crash(p)
  \/ CalendarChange

InitOverlap ==
  /\ variant \in {"bot", "digest"}
  /\ telegramToken = TRUE
  /\ googleJson = "valid"
  /\ chatIds = <<1>>
  /\ calFound = TRUE
  /\ events = <<EvTimed>>
  /\ tokenFile = FALSE
  /\ file = Missing
  /\ run = [p \in Procs |-> IdleRun]
  /\ runs = 0

SpecOverlap == InitOverlap /\ [][NextOverlap]_vars

TypeOK ==
  /\ variant \in {"bot", "digest"}
  /\ runs \in 0..MaxRuns
  /\ \A p \in Procs : run[p].pc \in
       {"idle", "import", "check", "service", "load", "calendars", "events",
        "event", "send", "save_open", "save_dump", "done", "raised", "crashed"}

\* ------------------------------------------------------------------ claims
CallsFor(r, j) == {c \in Range(r.calls) : c.ev = j}

\* Every destination of the route was called for event j of the run, and no
\* call for it failed.
DeliveredToAll(r, j) ==
  /\ \A d \in Range(chatIds) : \E c \in CallsFor(r, j) : c.dest = d
  /\ \A c \in CallsFor(r, j) : c.res = "ok"

\* The run is over other than by a kill of the process.
Over(r) == r.pc \in {"done", "raised"}

\* Every failure of the run is a non-ok response: no call raised in requests.
OnlyNotOk(r) == \A c \in Range(r.calls) : c.res # "exc"

\* Every event of the list can be formatted.
AllWellFormed == \A j \in 1..Len(events) : ~FormatRaises(events[j])

\* C1: a scheduled run that follows a completed scheduled run, on the same
\* events and the file the first one left, makes no delivery call.
C1_IdempotentRerun ==
  \A p \in Procs :
    (run[p].prevEnd = "done" /\ ~run[p].prevTest /\ ~run[p].isTest)
      => run[p].calls = <<>>

\* The first run delivered, the second one went through every event and ended.
C1_Witness ==
  /\ run["p1"].prevEnd = "done" /\ ~run["p1"].prevTest /\ ~run["p1"].isTest
  /\ run["p1"].prevCalls >= 2
  /\ run["p1"].pc = "done"
  /\ run["p1"].i > Len(events)

\* C2: in a scheduled run, a key the run has put in the sent-set (in memory
\* or in the file) is the key of an event delivered to every destination with
\* no failed call.
C2_SentOnlyIfDelivered ==
  \A p \in Procs :
    LET r == run[p]
        old == load_sent(r.fileAtStart)
    IN  (r.pc # "idle" /\ ~r.isTest) =>
          \A key \in (r.sent \cup load_sent(file)) \ old :
            \E j \in 1..Len(events) :
              Key(variant, events[j]) = key /\ DeliveredToAll(r, j)

\* C3: once the run has left an event one of whose calls got a non-ok
\* response, every destination of the route has been called for that event.
C3_OtherDestinationsStillCalled ==
  \A p \in Procs :
    LET r == run[p]
    IN  \A c \in Range(r.calls) :
          (c.res = "notok" /\ r.pc # "crashed" /\ ~(r.pc = "send" /\ r.i = c.ev))
            => \A d \in Range(chatIds) : \E c2 \in CallsFor(r, c.ev) : c2.dest = d

\* C4: when a run over well-formed events is over and its only failures were
\* non-ok responses, every event after one with a failed call is in the
\* sent-set or had its delivery attempted.
C4_LaterEventsStillAttempted ==
  \A p \in Procs :
    LET r == run[p]
    IN  (Over(r) /\ OnlyNotOk(r) /\ AllWellFormed) =>
          \A c \in Range(r.calls) :
            c.res = "notok" =>
              \A k \in (c.ev + 1)..Len(events) :
                Key(variant, events[k]) \in r.sent \/ CallsFor(r, k) # {}

\* C5: a run in test mode leaves sent.json as it found it, in every state of
\* the run, the states after an exception or a kill included.
C5_TestModeNeverWrites ==
  \A p \in Procs : run[p].isTest => file = run[p].fileAtStart

\* A test run that delivered an event whose key a scheduled run would have
\* written, and ended, by its end or by a delivery error.
C5_Witness ==
  /\ run["p1"].isTest
  /\ Over(run["p1"])
  /\ \E c \in Range(run["p1"].calls) :
       c.res = "ok" /\ Key(variant, events[c.ev]) \notin load_sent(file)

\* C6: a test run that fetched well-formed events and is over, its only
\* failures being non-ok responses, has attempted the delivery of every one
\* of them.
C6_TestModeDeliversAll ==
  \A p \in Procs :
    LET r == run[p]
    IN  (r.isTest /\ Over(r) /\ OnlyNotOk(r) /\ AllWellFormed /\ r.i >= 1) =>
          \A j \in 1..Len(events) : CallsFor(r, j) # {}

\* C7: load_sent returns the empty set for every file that is not a JSON
\* array (missing, not JSON, or JSON of another shape).
C7_LoadEmptyUnlessArray ==
  \A p \in Procs :
    LET r == run[p]
    IN  (r.pc \in {"calendars", "events"} /\ r.fileAtStart.kind # "array")
          => r.sent = {}

\* C8: after a kill of the process at any point of a run that started with
\* keys in sent.json, the file holds what it held when the run started or the
\* complete sorted array of the run's sent-set.
C8_SaveAtomicUnderCrash ==
  \A p \in Procs :
    LET r == run[p]
    IN  (r.pc = "crashed" /\ r.fileAtStart.kind = "array" /\ r.fileAtStart.items # <<>>) =>
          file = r.fileAtStart \/ file = ArrayFile(SortedList(r.sent))

\* C9 as stated: with no events, the run makes no delivery call and, at its
\* end, has left sent.json as it found it.
C9_EmptyWindowFileUnchanged ==
  \A p \in Procs :
    LET r == run[p]
    IN  (Over(r) /\ events = <<>>) =>
          r.calls = <<>> /\ file = r.fileAtStart

\* The set of keys a file holds, read without load_sent.
KeysOf(f) ==
  IF f.kind \in {"array", "object"} THEN Range(f.items)
  ELSE IF f.kind = "string" THEN {<<f.items[1][k]>> : k \in 1..Len(f.items[1])}
  ELSE {}

IsSortedArray(f) ==
  /\ f.kind = "array"
  /\ \A k \in 1..(Len(f.items) - 1) : StrLess(f.items[k], f.items[k + 1])

\* C9 amended: with no events, the run makes no delivery call; daily_digest.py
\* and bot.py in test mode leave sent.json as they found it; bot.py in
\* scheduled mode, when it completes, has rewritten it as the sorted array of
\* the keys it held.
C9_EmptyWindowAmended ==
  \A p \in Procs :
    LET r == run[p]
    IN  (r.pc # "idle" /\ events = <<>>) =>
          /\ r.calls = <<>>
          /\ (variant = "digest" \/ r.isTest) => file = r.fileAtStart
          /\ (variant = "bot" /\ ~r.isTest /\ r.pc = "done") =>
               IsSortedArray(file) /\ KeysOf(file) = KeysOf(r.fileAtStart)

\* A scheduled run of bot.py with no events has completed and has rewritten a
\* file that was not a sorted array.
C9_Witness ==
  /\ events = <<>>
  /\ variant = "bot" /\ calFound /\ ~run["p1"].isTest
  /\ run["p1"].pc = "done"
  /\ file # run["p1"].fileAtStart
  /\ KeysOf(file) # {}

\* C10: a run that ends on a missing setting has done no I/O before: no
\* calendar call, no delivery call, no file read or written.
C10_ConfigErrorBeforeIO ==
  \A p \in Procs :
    (run[p].pc = "raised" /\ run[p].err = "config") => run[p].io = {}
\* Every call of the run got an ok response.
AllOk(r) == \A c \in Range(r.calls) : c.res = "ok"

\* C11: a run that fetched events and met no delivery failure is not ended by
\* a malformed timestamp: it reaches its end, every well-formed event is in
\* the sent-set or had its delivery attempted, no call is made for a malformed
\* one, and a scheduled run has written sent.json.
C11_ParseErrorIsolated ==
  \A p \in Procs :
    LET r == run[p]
    IN  (Over(r) /\ AllOk(r) /\ r.i >= 1) =>
          /\ r.pc = "done"
          /\ \A j \in 1..Len(events) :
               IF FormatRaises(events[j])
               THEN CallsFor(r, j) = {}
               ELSE Key(variant, events[j]) \in r.sent \/ CallsFor(r, j) # {}
          /\ ~(variant = "bot" /\ r.isTest) => "sentWrite" \in r.io
\* C12: the calls of a run follow the fetched list: each call after the first
\* is for a later event, or for the same event and a later destination of the
\* route than the call before it,
\* so every destination of an event is served before the next event; and a
\* scheduled run calls for no event whose key it loaded.
C12_OrderPreserved ==
  \A p \in Procs :
    LET r == run[p]
    IN  /\ \A a \in 1..(Len(r.calls) - 1) :
             \/ r.calls[a].ev < r.calls[a + 1].ev
             \/ /\ r.calls[a].ev = r.calls[a + 1].ev
                /\ r.calls[a].dest < r.calls[a + 1].dest
        /\ \A c \in Range(r.calls) :
             /\ c.ev \in 1..Len(events)
             /\ ~r.isTest => Key(variant, events[c.ev]) \notin KeysOf(r.fileAtStart)

\* A run has served two destinations for each of two events and ended.
C12_Witness ==
  /\ run["p1"].pc = "done"
  /\ Len(chatIds) = 2
  /\ \E j, k \in 1..Len(events) :
       /\ j < k
       /\ Cardinality(CallsFor(run["p1"], j)) = 2
       /\ Cardinality(CallsFor(run["p1"], k)) = 2

\* The fields the key is said to depend on, beside the calendar and the tag.
SameIdAndStart(e1, e2) ==
  /\ e1.id = e2.id
  /\ e1.startDateTime = e2.startDateTime
  /\ e1.startDate = e2.startDate

\* C13: two events of the list with the same identifier and the same raw
\* start get the same key, whatever their other fields, the mode and the
\* sent-set; so no scheduled run calls for both.
C13_KeyDeterminism ==
  /\ \A j, k \in 1..Len(events) :
       SameIdAndStart(events[j], events[k])
         => Key(variant, events[j]) = Key(variant, events[k])
  /\ \A p \in Procs :
       LET r == run[p]
       IN  ~r.isTest =>
             \A j, k \in 1..Len(events) :
               (j < k /\ SameIdAndStart(events[j], events[k]))
                 => ~(CallsFor(r, j) # {} /\ CallsFor(r, k) # {})

\* A scheduled run delivered an event and then skipped its second fetch, which
\* differs in the end time only.
C13_Witness ==
  /\ run["p1"].pc = "done" /\ ~run["p1"].isTest
  /\ \E j, k \in 1..Len(events) :
       /\ j < k
       /\ SameIdAndStart(events[j], events[k])
       /\ events[j].endDateTime # events[k].endDateTime
       /\ CallsFor(run["p1"], j) # {}
       /\ CallsFor(run["p1"], k) = {}
\* C19: a scheduled run that loaded no key, met no delivery failure and ended
\* has called for both of any two events of the list that differ in
\* identifier or raw start: neither was skipped on the key of the other.
C19_DistinctEventsDistinctKeys ==
  \A p \in Procs :
    LET r == run[p]
    IN  (r.pc = "done" /\ ~r.isTest /\ AllOk(r) /\ KeysOf(r.fileAtStart) = {}) =>
          \A j, k \in 1..Len(events) :
            (j < k /\ ~SameIdAndStart(events[j], events[k]))
              => CallsFor(r, j) # {} /\ CallsFor(r, k) # {}
\* C14: the message of every call has the time text "All day" for an all-day
\* event and, for the event from 14:00 to 15:00, "2:00PM - 3:00PM".
C14_TimeText ==
  \A p \in Procs :
    \A c \in Range(run[p].calls) :
      LET ev == events[c.ev]
      IN  /\ ev.startDateTime = <<>> => TimeStr(variant, ev) = AllDayText
          /\ ev = EvTimed =>
               TimeStr(variant, ev) =
                 <<"2", ":", "0", "0", "P", "M", " ", "-", " ",
                   "3", ":", "0", "0", "P", "M">>
\* C15: a scheduled run ended by a transport failure (a non-ok response) has
\* persisted, by its end, the key of every event it delivered to every
\* destination, so that the next run does not send that event again.
C15_DeliveredKeysPersistedOnFailure ==
  \A p \in Procs :
    LET r == run[p]
    IN  (Over(r) /\ ~r.isTest /\ r.err = "transport" /\ OnlyNotOk(r)) =>
          \A j \in 1..Len(r.evs) :
            DeliveredToAll(r, j) => Key(variant, r.evs[j]) \in KeysOf(file)
\* C17: the count that run_daily_reminders prints at the end of a run is the
\* number of events delivered in that run to every destination with no failed
\* call; skipped events and events with a failed delivery are not counted.
C17_ReportedCountIsDelivered ==
  \A p \in Procs :
    LET r == run[p]
    IN  (variant = "digest" /\ r.pc = "done" /\ r.reported # -1) =>
          r.reported = Cardinality({j \in 1..Len(r.evs) : DeliveredToAll(r, j)})
\* The array of the file holds no entry twice.
NoDuplicates(f) ==
  \A j, k \in 1..Len(f.items) : j # k => f.items[j] # f.items[k]

\* C18: once a run has loaded the sent-set, the set it holds never loses a key
\* of the file it loaded; a run that completes after writing sent.json leaves
\* an array without duplicates that holds every key of the file it started
\* from, and a run that completes without writing leaves the file as it was.
C18_SentSetMonotone ==
  \A p \in Procs :
    LET r == run[p]
    IN  /\ "sentRead" \in r.io => KeysOf(r.fileAtStart) \subseteq r.sent
        /\ (r.pc = "done" /\ "sentWrite" \in r.io) =>
             /\ file.kind = "array"
             /\ KeysOf(r.fileAtStart) \subseteq KeysOf(file)
             /\ NoDuplicates(file)
        /\ (r.pc = "done" /\ "sentWrite" \notin r.io) => file = r.fileAtStart

\* A second scheduled run in a row completed after a delivery and wrote a file
\* with more keys than the non-empty array it started from.
C18_Witness ==
  LET r == run["p1"]
  IN  /\ r.pc = "done" /\ ~r.isTest /\ "sentWrite" \in r.io
      /\ r.fileAtStart.kind = "array" /\ KeysOf(r.fileAtStart) # {}
      /\ r.calls # <<>>
      /\ KeysOf(file) # KeysOf(r.fileAtStart)
      /\ Cardinality(KeysOf(file)) >= 2
\* Two completed scheduled runs p and q, q the last to save: the file holds
\* the set q wrote, a key that p recorded after a delivery is not in it, and
\* one event was delivered by both.
RaceState(p, q) ==
  LET rp == run[p]
      rq == run[q]
  IN  /\ rp.pc = "done" /\ rq.pc = "done"
      /\ ~rp.isTest /\ ~rq.isTest
      /\ "sentWrite" \in rp.io /\ "sentWrite" \in rq.io
      /\ file.kind = "array" /\ KeysOf(file) = rq.sent
      /\ \E c \in Range(rp.calls) :
           /\ Key(variant, rp.evs[c.ev]) \in rp.sent
           /\ Key(variant, rp.evs[c.ev]) \notin KeysOf(file)
      /\ \E c1 \in Range(rp.calls), c2 \in Range(rq.calls) :
           /\ rp.evs[c1.ev] = rq.evs[c2.ev]
           /\ c1.dest = c2.dest
           /\ c1.res = "ok" /\ c2.res = "ok"

\* C16: the last-writer-wins state (the file is the later save alone, a key
\* recorded by the other run is lost, one event delivered twice) is reached
\* only when invocations overlapped: with invocations that never overlap, no
\* such state is reached.
C16_RaceOnlyWhenOverlapping ==
  \A p, q \in Procs :
    (p # q /\ RaceState(p, q)) => run[p].overlap \/ run[q].overlap
====
